---------------------------- MODULE Spec2Model ----------------------------
(***************************************************************************)
(* Model of parse_data.py: the gamma survival model, the convolution       *)
(* compute_I, and the script that derives I, R and R_7dayAv per location.  *)
(*                                                                         *)
(* Numbers.  The script works in floating point; the model works in fixed  *)
(* point with exact integer arithmetic:                                    *)
(*   - a gamma CDF value is an integer number of 1/CdfUnit;                *)
(*   - delta is an integer number of 1/DeltaUnit;                          *)
(*   - a survival probability and an infected count I are integer numbers  *)
(*     of 1/PUnit, PUnit = CdfUnit * DeltaUnit;                            *)
(*   - means are in tenths of a day, inf_time_mean in 1/(10*DeltaUnit);    *)
(*   - a dataframe cell that may be missing or infinite is a record        *)
(*     [k, n, d]: k = "num" is the quotient n/d (d > 0), k = "nan",        *)
(*     "inf", "-inf" are IEEE NaN and the two infinities;                  *)
(*   - a new_cases_7dayAv cell counts sevenths (it holds the window sum);  *)
(*   - an R cell n/d is n in the units of its numerator column times       *)
(*     inf_time_mean, over d in the units of I.                            *)
(***************************************************************************)
EXTENDS Integers, Sequences, FiniteSets, TLC

\* ------------------------------------------------------------------ bounds
\* longest enumerated case series (longer ones come from the fixed families)
MaxLen == 3
\* largest enumerated daily case count
MaxCase == 2

\* ------------------------------------------------------------------- units
CdfUnit == 10 * 100
DeltaUnit == 100 * 1000
PUnit == CdfUnit * DeltaUnit
KUnit == 10 * 100

\* ------------------------------------------------------- program constants
\* np.arange(1000): length of the survival lookup table
Horizon == 1000
\* rolling(7)
Window == 7
\* mean_r = 24.7 (tenths of a day), cv_r = 0.35 (hundredths)
mean_r == 247
cv_r == 35
\* mean_d = 18.8, cv_d = 0.45
mean_d == 188
cv_d == 45
\* delta = 0.00657 (in 1/DeltaUnit)
delta == 657
\* k = 1/cv^2 and theta = mean/k, in 1/KUnit
k_r == (KUnit * 100 * 100) \div (cv_r * cv_r)
theta_r == (mean_r * 100 * KUnit) \div k_r
k_d == (KUnit * 100 * 100) \div (cv_d * cv_d)
theta_d == (mean_d * 100 * KUnit) \div k_d
\* inf_time_mean = mean_r*(1-delta) + mean_d*delta, in 1/(10*DeltaUnit)
inf_time_mean == mean_r * (DeltaUnit - delta) + mean_d * delta

\* the five parameters the script passes to compute_I
RefParams ==
  [k_r |-> k_r, theta_r |-> theta_r, k_d |-> k_d, theta_d |-> theta_d,
   delta |-> delta]

\* --------------------------------------------------------- python arrays
Min(a, b) == IF a < b THEN a ELSE b

\* len(a)
PyLen(a) == Cardinality(DOMAIN a)

\* a[:n] for n >= 0
SliceTo(a, n) == [i \in 1..Min(n, PyLen(a)) |-> a[i]]

\* a[:start+1] written for a[start::-1]: the table is not reversed
SliceRev_forward(a, start) ==
  [i \in 1..Min(start + 1, PyLen(a)) |-> a[i]]

\* a[start::-1] for start >= 0: from index min(start, len-1) down to index 0
SliceRev(a, start) ==
  LET s == Min(start, PyLen(a) - 1)
  IN  [i \in 1..(s + 1) |-> a[s + 2 - i]]

\* sum of f[lo..hi]
RECURSIVE SumRange(_, _, _)
SumRange(f, lo, hi) ==
  IF lo > hi THEN 0
  ELSE IF lo = hi THEN f[lo]
  ELSE LET mid == (lo + hi) \div 2
       IN  SumRange(f, lo, mid) + SumRange(f, mid + 1, hi)

\* np.dot raises ValueError unless the two 1-D arrays have the same length
DotAligned(x, y) == PyLen(x) = PyLen(y)

\* np.dot(x, y) for aligned 1-D arrays
Dot(x, y) == SumRange([i \in 1..PyLen(x) |-> x[i] * y[i]], 1, PyLen(x))

\* ----------------------------------------------------- the survival model
\* CdfUnit * P(k, d/theta), the regularized lower incomplete gamma function
\* at whole days d = 0, 1, ..., rounded to 1/CdfUnit; each row continues
\* with CdfUnit for ever.
\* shape 1/0.35^2, scale 24.7*0.35^2 (recovery)
GammaRecovery ==
  <<0, 0, 0, 0, 0, 0, 1, 2, 5, 9, 17, 28, 43, 62, 87, 116, 150, 188, 230,
    275, 321, 370, 418, 467, 514, 560, 604, 646, 685, 721, 755, 785, 813,
    837, 860, 879, 896, 912, 925, 936, 946, 955, 962, 968, 974, 978, 982,
    985, 988, 990, 992, 993, 994, 995, 996, 997, 998, 998, 998, 999, 999,
    999, 999, 999>>
\* shape 1/0.45^2, scale 18.8*0.45^2 (death)
GammaDeath ==
  <<0, 0, 0, 1, 5, 12, 24, 42, 66, 97, 133, 174, 220, 268, 319, 371, 422,
    473, 522, 569, 614, 655, 694, 730, 762, 792, 818, 842, 863, 882, 898,
    912, 925, 936, 946, 954, 961, 967, 972, 976, 980, 983, 986, 988, 990,
    992, 993, 994, 995, 996, 997, 997, 998, 998, 999, 999, 999, 999, 999,
    999>>
\* shape 4, scale 0.5
GammaShape4 == <<0, 143, 567, 849, 958, 990, 998>>
\* shape 1, scale 1 (exponential)
GammaShape1 == <<0, 632, 865, 950, 982, 993, 998, 999>>

GammaTable(k, theta) ==
  CASE k = k_r /\ theta = theta_r -> GammaRecovery
    [] k = k_d /\ theta = theta_d -> GammaDeath
    [] k = 4 * KUnit /\ theta = KUnit \div 2 -> GammaShape4
    [] k = KUnit /\ theta = KUnit -> GammaShape1

\* sp.gammainc(k, x/theta)
gammainc(k, x, theta) ==
  LET tab == GammaTable(k, theta)
  IN  IF x < Len(tab) THEN tab[x + 1] ELSE CdfUnit

\* the upper incomplete gamma function (gammaincc) taken for the lower one
cdf_gamma_upper(x, k, theta) == CdfUnit - gammainc(k, x, theta)

\* cdf_gamma: the gamma CDF at x
cdf_gamma(x, k, theta) == gammainc(k, x, theta)

\* (delta-1) written for (1-delta)
prob_still_infected_signslip(T, p) ==
  LET p_rec == CdfUnit - cdf_gamma(T, p.k_r, p.theta_r)
      p_death == CdfUnit - cdf_gamma(T, p.k_d, p.theta_d)
  IN  p.delta * p_death + (p.delta - DeltaUnit) * p_rec

\* the weight (1-delta) of the recovering sub-population left out
prob_still_infected_unweighted(T, p) ==
  LET p_rec == CdfUnit - cdf_gamma(T, p.k_r, p.theta_r)
      p_death == CdfUnit - cdf_gamma(T, p.k_d, p.theta_d)
  IN  p.delta * p_death + DeltaUnit * p_rec

\* p = delta*p_death + (1-delta)*p_rec, in 1/PUnit
prob_still_infected(T, p) ==
  LET p_rec == CdfUnit - cdf_gamma(T, p.k_r, p.theta_r)
      p_death == CdfUnit - cdf_gamma(T, p.k_d, p.theta_d)
  IN  p.delta * p_death + (DeltaUnit - p.delta) * p_rec

\* np.array([prob_still_infected(t, ...) for t in np.arange(1000)])
SurvivalTable(p) == [i \in 1..Horizon |-> prob_still_infected(i - 1, p)]

\* np.zeros(n)
Zeros(n) == [i \in 1..n |-> 0]

\* ------------------------------------------------- float cells of a frame
Num(n) == [k |-> "num", n |-> n, d |-> 1]
NaN == [k |-> "nan", n |-> 0, d |-> 1]
PosInf == [k |-> "inf", n |-> 0, d |-> 1]
NegInf == [k |-> "-inf", n |-> 0, d |-> 1]

IsNum(x) == x.k = "num"
IsNaN(x) == x.k = "nan"
IsInf(x) == x.k \in {"inf", "-inf"}

\* Series.fillna(0).values: the cells as plain numbers, missing ones as 0
FillNa0(col) == [i \in 1..Len(col) |-> IF IsNaN(col[i]) THEN 0 ELSE col[i].n]

\* shift(periods, fill_value=0): the vacated rows become 0, not NaN
Shift_zero_fill(col, periods) ==
  [i \in 1..Len(col) |->
     IF i - periods \in 1..Len(col) THEN col[i - periods] ELSE Num(0)]

\* Series.shift(periods): row i takes the value of row i - periods, rows
\* without such a row become NaN
Shift(col, periods) ==
  [i \in 1..Len(col) |->
     IF i - periods \in 1..Len(col) THEN col[i - periods] ELSE NaN]

\* x / i for a cell x and an infected count i (IEEE division: a finite
\* number over zero is an infinity, 0/0 and NaN/anything are NaN)
FDiv(x, i) ==
  IF IsNaN(x) THEN NaN
  ELSE IF i = 0
       THEN IF x.n > 0 THEN PosInf ELSE IF x.n < 0 THEN NegInf ELSE NaN
       ELSE IF i > 0 THEN [k |-> "num", n |-> x.n, d |-> i]
            ELSE [k |-> "num", n |-> -x.n, d |-> -i]

\* x * m for a cell x and a finite number m
FMul(x, m) ==
  IF IsNaN(x) THEN NaN
  ELSE IF IsInf(x)
       THEN IF m = 0 THEN NaN
            ELSE IF (m > 0) = (x.k = "inf") THEN PosInf ELSE NegInf
       ELSE [k |-> "num", n |-> x.n * m, d |-> x.d]

\* (col / I) * inf_time_mean, row by row
RateColumn(col, I) ==
  [i \in 1..Len(col) |-> FMul(FDiv(col[i], I[i]), inf_time_mean)]

\* one column of a frame
Column(df, name) == [i \in 1..Len(df) |-> df[i][name]]

\* ------------------------------------------------------ frame operations
Locations == <<"Afghanistan", "Albania">>
LocRank(l) == CHOOSE i \in 1..Len(Locations) : Locations[i] = l

\* row order of sort_values(['location','date'])
RowLess(a, b) ==
  \/ LocRank(a.location) < LocRank(b.location)
  \/ a.location = b.location /\ a.date < b.date

IsSorted(df) == \A i \in 1..(Len(df) - 1) : RowLess(df[i], df[i + 1])

\* df.sort_values(['location','date']); the keys of a dataset are distinct
SortRows(df) ==
  IF IsSorted(df) THEN df
  ELSE LET rank == [j \in 1..Len(df) |->
                      1 + Cardinality({q \in 1..Len(df) : RowLess(df[q], df[j])})]
       IN  [i \in 1..Len(df) |-> df[CHOOSE j \in 1..Len(df) : rank[j] = i]]

\* the new_cases of the last n rows of location loc at positions <= i,
\* latest first
RECURSIVE GroupWindow(_, _, _, _)
GroupWindow(df, loc, i, n) ==
  IF n = 0 \/ i = 0 THEN <<>>
  ELSE IF df[i].location = loc
       THEN <<df[i].new_cases>> \o GroupWindow(df, loc, i - 1, n - 1)
       ELSE GroupWindow(df, loc, i - 1, n)

\* mean of a full window without missing values, in sevenths, else NaN
\* (min_periods is the window length)
WindowMean(w) ==
  IF Len(w) < Window \/ \E j \in 1..Len(w) : IsNaN(w[j]) THEN NaN
  ELSE Num(SumRange([j \in 1..Len(w) |-> w[j].n], 1, Len(w)))

\* rolling(7) without the groupby: the window runs over the rows of the
\* whole frame, across the boundary between two locations
Rolling7_ungrouped(df) ==
  [i \in 1..Len(df) |->
     [new_cases_7dayAv |->
        WindowMean([j \in 1..Min(Window, i) |-> df[i + 1 - j].new_cases])]
       @@ df[i]]

\* groupby('location').rolling(7)['new_cases'].mean().reset_index(0,drop=True)
\* assigned as a column: index alignment gives every row the mean over the
\* window of its own location that ends at it
Rolling7(df) ==
  [i \in 1..Len(df) |->
     [new_cases_7dayAv |-> WindowMean(GroupWindow(df, df[i].location, i, Window))]
       @@ df[i]]

\* df['location'].unique(): the locations in order of first appearance
Unique(df) ==
  LET first == {i \in 1..Len(df) :
                  \A j \in 1..(i - 1) : df[j].location # df[i].location}
      pos(n) == CHOOSE i \in first : Cardinality({j \in first : j < i}) = n - 1
  IN  [n \in 1..Cardinality(first) |-> df[pos(n)].location]

\* df[df['location'] == country]
RowsOf(df, country) ==
  LET keep(r) == r.location = country IN SelectSeq(df, keep)

\* df_temp with the columns I, R and R_7dayAv set
WithRates(df, I) ==
  LET R == RateColumn(Shift(Column(df, "new_cases"), -1), I)
      R7 == RateColumn(Shift(Column(df, "new_cases_7dayAv"), -1), I)
  IN  [i \in 1..Len(df) |->
         [I |-> I[i], R |-> R[i], R_7dayAv |-> R7[i]] @@ df[i]]

\* pd.concat(list_df)
RECURSIVE Concat(_)
Concat(frames) ==
  IF frames = <<>> THEN <<>> ELSE Head(frames) \o Concat(Tail(frames))

\* ---------------------------------------------------------------- inputs
MkRows(loc, dates, vals) ==
  [i \in 1..Len(vals) |->
     [location |-> loc, date |-> dates[i], new_cases |-> vals[i]]]

Reverse(s) == [i \in 1..Len(s) |-> s[Len(s) + 1 - i]]

\* raw new_cases cells: missing, a negative correction, or a count
RawVals == {NaN} \cup {Num(c) : c \in -1..MaxCase}
\* date steps between consecutive rows of a location (2 skips a day)
GapSteps == {1, 2}
\* the dates of m rows, the first on day 1, given the steps between them
DatesFrom(gaps, m) == [i \in 1..m |-> 1 + SumRange(gaps, 2, i)]
\* m consecutive dates
Daily(m) == [i \in 1..m |-> i]

\* one location, its rows given by their cases and date steps
ShortFrame(vals, gaps) ==
  MkRows(Locations[1], DatesFrom(gaps, Len(vals)), vals)

\* two locations with daily rows
TinyVals == {NaN, Num(0), Num(1)}
TwoLocationFrame(a, b) ==
  MkRows(Locations[1], Daily(Len(a)), a) \o MkRows(Locations[2], Daily(Len(b)), b)

\* m daily rows, more than the rolling window: a constant level b with
\* the special value s on day q
WeekFrame(m, q, b, s) ==
  MkRows(Locations[1], Daily(m), [i \in 1..m |-> IF i = q THEN s ELSE Num(b)])

\* two locations with daily rows at constant levels a and b, the first
\* with m rows (about one rolling window), the second with n
PairFrame(m, n, a, b) ==
  TwoLocationFrame([i \in 1..m |-> Num(a)], [i \in 1..n |-> Num(b)])

\* a daily series one day longer than the survival table
LongFrame ==
  MkRows(Locations[1], Daily(Horizon + 1),
         [i \in 1..(Horizon + 1) |-> IF i = 1 THEN Num(1) ELSE Num(0)])

\* the rows as imported: ascending, or descending (an unsorted import)
Imported(df, descending) == IF descending THEN Reverse(df) ELSE df

\* parameter sets handed to compute_I: the script's, its two pure
\* sub-populations, a fast-decaying mixture, and two with delta outside [0,1]
FastParams ==
  [k_r |-> 4 * KUnit, theta_r |-> KUnit \div 2, k_d |-> KUnit,
   theta_d |-> KUnit, delta |-> DeltaUnit \div 2]
ParamSets ==
  {RefParams, [RefParams EXCEPT !.delta = 0],
   [RefParams EXCEPT !.delta = DeltaUnit], FastParams,
   [FastParams EXCEPT !.delta = 2 * DeltaUnit],
   [FastParams EXCEPT !.delta = -(DeltaUnit \div 2)]}

\* prob_values, the table compute_I builds first, for each parameter set
prob_values == [p \in ParamSets |-> SurvivalTable(p)]

\* delta in [0,1], positive shapes and scales
ValidParams(p) ==
  /\ p.delta >= 0 /\ p.delta <= DeltaUnit
  /\ p.k_r > 0 /\ p.theta_r > 0 /\ p.k_d > 0 /\ p.theta_d > 0

\* one case on day 0 of n days
Impulse(n) == [i \in 1..n |-> IF i = 1 THEN 1 ELSE 0]

\* ----------------------------------------------------------------- state
VARIABLES
  pc,             \* position in the script, or in a bare call of compute_I
  params,         \* the five parameters in force
  df_covid_raw,   \* the imported frame
  list_countries, \* the locations to loop over
  country,        \* index of the location being processed
  df_temp,        \* the rows of that location
  ar_cases,       \* compute_I: its argument
  ar_I,           \* compute_I: the result array being filled
  t,              \* compute_I: the loop index
  list_df,        \* the finished frames
  df_covid,       \* the exported frame; in the app, the frame it plots
  countries,      \* plots: the selected locations
  res,            \* plots: 'Daily' or '7 day average'
  scale,          \* plots: 'Raw', 'Per million habitants' or 'Max value'
  n_days,         \* scatter: length of the death window
  start_date,     \* scatter: only later dates are plotted
  delay,          \* scatter: rows by which the death sum is delayed
  df_plot,        \* scatter: the working frame
  count,          \* grid: number of countries plotted so far
  fig             \* plots: the traces (grid) or points (scatter) so far

vars ==
  <<pc, params, df_covid_raw, list_countries, country, df_temp, ar_cases,
    ar_I, t, list_df, df_covid, countries, res, scale, n_days, start_date,
    delay, df_plot, count, fig>>

frames == <<df_covid_raw, list_countries, country, df_temp, list_df, df_covid>>

\* the variables of the plotting functions
plots == <<countries, res, scale, n_days, start_date, delay, df_plot, count, fig>>

\* no plotting function is running
NoPlot ==
  /\ countries = <<>>
  /\ res = ""
  /\ scale = ""
  /\ n_days = 0
  /\ start_date = 0
  /\ delay = 0
  /\ df_plot = <<>>
  /\ count = 0
  /\ fig = <<>>

\* the script, after read_csv
Init ==
  /\ pc = "sort"
  /\ params = RefParams
  /\ \/ \E m \in 1..MaxLen, descending \in BOOLEAN :
          \E vals \in [1..m -> RawVals], gaps \in [2..m -> GapSteps] :
            df_covid_raw = Imported(ShortFrame(vals, gaps), descending)
     \/ \E m \in 1..2, n \in 1..2, descending \in BOOLEAN :
          \E a \in [1..m -> TinyVals], b \in [1..n -> TinyVals] :
            df_covid_raw = Imported(TwoLocationFrame(a, b), descending)
     \/ \E m \in (Window + 1)..(Window + 2), q \in 1..(Window + 2), b \in 0..1,
           s \in {NaN, Num(MaxCase)} :
          df_covid_raw = WeekFrame(m, q, b, s)
     \/ \E m \in (Window - 1)..Window, n \in 2..3, a \in 1..MaxCase,
           b \in 1..MaxCase, descending \in BOOLEAN :
          df_covid_raw = Imported(PairFrame(m, n, a, b), descending)
     \/ df_covid_raw = LongFrame
  /\ list_countries = <<>>
  /\ country = 0
  /\ df_temp = <<>>
  /\ ar_cases = <<>>
  /\ ar_I = <<>>
  /\ t = 0
  /\ list_df = <<>>
  /\ df_covid = <<>>
  /\ NoPlot

\* df_covid_raw.sort_values(['location','date'], inplace=True)
SortValues ==
  /\ pc = "sort"
  /\ df_covid_raw' = SortRows(df_covid_raw)
  /\ pc' = "rolling"
  /\ UNCHANGED <<params, list_countries, country, df_temp, ar_cases,
                 ar_I, t, list_df, df_covid>>
  /\ UNCHANGED plots

\* df_covid_raw['new_cases_7dayAv'] = ...; then the gamma constants and
\* list_countries = df_covid_raw['location'].unique()
RollingAverage ==
  /\ pc = "rolling"
  /\ df_covid_raw' = Rolling7(df_covid_raw)
  /\ list_countries' = Unique(df_covid_raw)
  /\ country' = 1
  /\ pc' = "loop"
  /\ UNCHANGED <<params, df_temp, ar_cases, ar_I, t, list_df, df_covid>>
  /\ UNCHANGED plots

\* for country in list_countries: select the rows, zero-fill the cases and
\* enter compute_I (table built, ar_I = zeros)
CountryBegin ==
  /\ pc = "loop"
  /\ country <= Len(list_countries)
  /\ LET rows == RowsOf(df_covid_raw, list_countries[country])
         cases == FillNa0(Column(rows, "new_cases"))
     IN  /\ df_temp' = rows
         /\ ar_cases' = cases
         /\ ar_I' = Zeros(Len(cases))
  /\ t' = 0
  /\ pc' = "compute_I"
  /\ UNCHANGED <<params, df_covid_raw, list_countries, country, list_df, df_covid>>
  /\ UNCHANGED plots

\* one iteration of `for t in range(len(ar_cases))`
ComputeIStep ==
  /\ pc = "compute_I"
  /\ t < Len(ar_cases)
  /\ LET x == SliceTo(ar_cases, t + 1)
         y == SliceRev(prob_values[params], t)
     IN  /\ DotAligned(x, y)
         /\ ar_I' = [ar_I EXCEPT ![t + 1] = Dot(x, y)]
  /\ t' = t + 1
  /\ UNCHANGED <<pc, params, ar_cases>>
  /\ UNCHANGED frames
  /\ UNCHANGED plots

\* np.dot raises ValueError: compute_I does not return, the script dies
ComputeIRaise ==
  /\ pc = "compute_I"
  /\ t < Len(ar_cases)
  /\ ~DotAligned(SliceTo(ar_cases, t + 1), SliceRev(prob_values[params], t))
  /\ pc' = "raised"
  /\ UNCHANGED <<params, ar_cases, ar_I, t>>
  /\ UNCHANGED frames
  /\ UNCHANGED plots

\* compute_I returns into the loop body: I, R and R_7dayAv are attached and
\* the frame is appended
CountryStore ==
  /\ pc = "compute_I"
  /\ country > 0
  /\ t = Len(ar_cases)
  /\ LET done == WithRates(df_temp, ar_I)
     IN  /\ df_temp' = done
         /\ list_df' = Append(list_df, done)
  /\ country' = country + 1
  /\ pc' = "loop"
  /\ UNCHANGED <<params, df_covid_raw, list_countries, ar_cases, ar_I,
                 t, df_covid>>
  /\ UNCHANGED plots

\* df_covid = pd.concat(list_df); df_covid.to_csv(...)
Export ==
  /\ pc = "loop"
  /\ country > Len(list_countries)
  /\ df_covid' = Concat(list_df)
  /\ pc' = "done"
  /\ UNCHANGED <<params, df_covid_raw, list_countries, country, df_temp,
                 ar_cases, ar_I, t, list_df>>
  /\ UNCHANGED plots

Next ==
  \/ SortValues
  \/ RollingAverage
  \/ CountryBegin
  \/ ComputeIStep
  \/ ComputeIRaise
  \/ CountryStore
  \/ Export

Spec == Init /\ [][Next]_vars

\* ------------------------------------------- compute_I as a pure function
\* a call compute_I(ar_cases, k_r, theta_r, k_d, theta_d, delta), at the
\* head of its loop
InitCall ==
  /\ pc = "compute_I"
  /\ \/ /\ params \in ParamSets
        /\ \E m \in 1..MaxLen : ar_cases \in [1..m -> -1..MaxCase]
     \/ /\ params = RefParams
        /\ \E n \in {Horizon, Horizon + 1} : ar_cases = Impulse(n)
  /\ ar_I = Zeros(Len(ar_cases))
  /\ t = 0
  /\ df_covid_raw = <<>>
  /\ list_countries = <<>>
  /\ country = 0
  /\ df_temp = <<>>
  /\ list_df = <<>>
  /\ df_covid = <<>>
  /\ NoPlot

\* return ar_I
ComputeIReturn ==
  /\ pc = "compute_I"
  /\ country = 0
  /\ t = Len(ar_cases)
  /\ pc' = "returned"
  /\ UNCHANGED <<params, ar_cases, ar_I, t>>
  /\ UNCHANGED frames
  /\ UNCHANGED plots

NextCall ==
  \/ ComputeIStep
  \/ ComputeIRaise
  \/ ComputeIReturn

SpecCall == InitCall /\ [][NextCall]_vars

\* ---------------------------------------------------------------- claims
NonNegative(cases) == \A i \in 1..Len(cases) : cases[i] >= 0

\* sum over s = 0..day of cases[s] * S[day - s], S[d] = prob_still_infected(d)
Convolution(cases, p, day) ==
  SumRange([s \in 0..day |-> cases[s + 1] * prob_still_infected(day - s, p)],
           0, day)

\* cases[0] + ... + cases[day]
Cumulative(cases, day) == SumRange(cases, 1, day + 1)

\* C1: for a case series of length N <= 1000, iteration t of compute_I
\* stores in entry t the sum over s = 0..t of cases[s] * S[t-s] and leaves
\* the other entries alone, and the array returned has exactly N entries.
C1_Convolution ==
  [][(pc = "compute_I" /\ Len(ar_cases) <= Horizon) =>
       /\ t' = t + 1 =>
            ar_I' = [ar_I EXCEPT ![t + 1] = Convolution(ar_cases, params, t)]
       /\ pc' = "returned" =>
            ar_I' = ar_I /\ t = Len(ar_cases) /\ Len(ar_I) = Len(ar_cases)]_vars

\* a series as long as the survival table has been convolved to its end
C1_Witness ==
  /\ pc = "returned"
  /\ country = 0
  /\ Len(ar_cases) = Horizon
  /\ ar_I[1] = ar_cases[1] * PUnit
  /\ ar_I[8] > 0 /\ ar_I[8] < ar_I[1]
  /\ ar_I[Horizon] = 0

\* C2: compute_I completes without raising for a series of any length
\* N >= 1, also for N greater than the 1000 entries of the survival table.
C2_NeverRaises == pc # "raised"

\* C3: with non-negative cases and valid parameters every value compute_I
\* returns is >= 0.
C3_NonNegative ==
  (pc = "returned" /\ ValidParams(params) /\ NonNegative(ar_cases)) =>
    \A i \in 1..Len(ar_I) : ar_I[i] >= 0

\* a returned array with a day on which part of the cases has recovered
C3_Witness ==
  /\ pc = "returned"
  /\ ValidParams(params)
  /\ NonNegative(ar_cases)
  /\ \E i \in 1..Len(ar_I) : ar_I[i] > 0 /\ ar_I[i] % PUnit # 0

\* C4: with non-negative cases (and valid parameters) every returned I[t]
\* is at most cases[0] + ... + cases[t].
C4_Conservation ==
  (pc = "returned" /\ ValidParams(params) /\ NonNegative(ar_cases)) =>
    \A i \in 1..Len(ar_I) : ar_I[i] <= PUnit * Cumulative(ar_cases, i - 1)

\* a returned array that meets the bound on its first day and is strictly
\* below it later
C4_Witness ==
  /\ pc = "returned"
  /\ ValidParams(params)
  /\ NonNegative(ar_cases)
  /\ ar_cases[1] > 0
  /\ ar_I[1] = PUnit * ar_cases[1]
  /\ \E i \in 2..Len(ar_I) :
       ar_I[i] > 0 /\ ar_I[i] < PUnit * Cumulative(ar_cases, i - 1)

\* the zero-filled case series of a stored frame
CasesOf(frame) == FillNa0(Column(frame, "new_cases"))

\* C5: in every stored frame (of non-negative cases), on every day t < N-1
\* with I[t] > 0,
\* R[t] = (cases[t+1] / I[t]) * inf_time_mean with cases the zero-filled
\* series given to compute_I (a missing value on day t+1 counts as 0).
C5_RFromZeroFilled ==
  \A f \in 1..Len(list_df) :
    LET frame == list_df[f]
        cases == CasesOf(frame)
    IN  NonNegative(cases) =>
          \A i \in 1..(Len(frame) - 1) :
            frame[i].I > 0 =>
              frame[i].R = FMul(FDiv(Num(cases[i + 1]), frame[i].I), inf_time_mean)

\* C6: in every stored frame R and R_7dayAv at the final index are NaN,
\* whatever the case values; no row is dropped, in the frame or in the
\* exported table.
C6_LastRMissing ==
  /\ \A f \in 1..Len(list_df) :
       LET frame == list_df[f]
           n == Len(frame)
       IN  /\ n >= 1
           /\ n = Len(RowsOf(df_covid_raw, frame[1].location))
           /\ IsNaN(frame[n].R)
           /\ IsNaN(frame[n].R_7dayAv)
  /\ pc = "done" =>
       /\ Len(df_covid) = Len(df_covid_raw)
       /\ \A i \in 1..Len(df_covid) :
            (i = Len(df_covid) \/ df_covid[i + 1].location # df_covid[i].location)
              => IsNaN(df_covid[i].R) /\ IsNaN(df_covid[i].R_7dayAv)

\* an exported series longer than the rolling window whose last day has
\* cases and infected, and whose day before has a number in both rates
C6_Witness ==
  /\ pc = "done"
  /\ LET n == Len(df_covid)
     IN  /\ n > Window
         /\ IsNum(df_covid[n].new_cases) /\ df_covid[n].new_cases.n > 0
         /\ IsNum(df_covid[n].new_cases_7dayAv)
         /\ df_covid[n].I > 0
         /\ IsNum(df_covid[n - 1].R) /\ df_covid[n - 1].R.n > 0
         /\ IsNum(df_covid[n - 1].R_7dayAv) /\ df_covid[n - 1].R_7dayAv.n > 0
         /\ IsNaN(df_covid[n].R)
         /\ IsNaN(df_covid[n].R_7dayAv)

\* C7: in every stored frame (of non-negative cases), whenever I[t] = 0
\* the stored R[t] is the missing marker (never 0, never an infinity).
C7_ZeroInfectedIsMissing ==
  \A f \in 1..Len(list_df) :
    NonNegative(CasesOf(list_df[f])) =>
      \A i \in 1..Len(list_df[f]) :
        list_df[f][i].I = 0 => IsNaN(list_df[f][i].R)

\* C8: with an invalid configuration (delta outside [0,1], a non-positive
\* shape or scale) compute_I computes and returns no I value, whatever the
\* (non-negative) cases.
C8_InvalidConfigRejected ==
  (~ValidParams(params) /\ NonNegative(ar_cases)) =>
    (t = 0 /\ pc # "returned")

\* C9: the array the country loop passes to compute_I has no negative
\* value (and, being zero-filled, no missing one).
C9_CleanedNonNegative ==
  (pc = "compute_I" /\ country > 0) => NonNegative(ar_cases)

\* infected count of row e with the weights taken in calendar days
CalendarI(frame, cases, e) ==
  SumRange([r \in 1..e |->
              cases[r] * prob_still_infected(frame[e].date - frame[r].date, params)],
           1, e)

\* the cases of the day after row i, 0 when the frame has no row for it
NextDayCases(frame, cases, i) ==
  IF \E j \in 1..Len(frame) : frame[j].date = frame[i].date + 1
  THEN cases[CHOOSE j \in 1..Len(frame) : frame[j].date = frame[i].date + 1]
  ELSE 0

\* C10: in every stored frame of non-negative cases without missing
\* values, I on a date weighs the cases of an earlier date by S[calendar
\* days between them], and R on a date before the last uses the cases of
\* the next calendar day (0 when that date has no row).
C10_CalendarDays ==
  \A f \in 1..Len(list_df) :
    LET frame == list_df[f]
        cases == CasesOf(frame)
    IN  (NonNegative(cases) /\ \A i \in 1..Len(frame) : IsNum(frame[i].new_cases)) =>
          \A e \in 1..Len(frame) :
            /\ frame[e].I = CalendarI(frame, cases, e)
            /\ (e < Len(frame) /\ frame[e].I # 0) =>
                 frame[e].R =
                   FMul(FDiv(Num(NextDayCases(frame, cases, e)), frame[e].I),
                        inf_time_mean)

\* the rows of one location as imported: location, date and new_cases
OwnRows(df, loc) ==
  LET own == RowsOf(df, loc)
  IN  [i \in 1..Len(own) |->
         [location |-> own[i].location, date |-> own[i].date,
          new_cases |-> own[i].new_cases]]

\* the script run on a dataset that holds these rows and nothing else
Alone(own) ==
  LET one == Rolling7(SortRows(own))
      cases == FillNa0(Column(one, "new_cases"))
      I == [i \in 1..Len(cases) |-> Convolution(cases, params, i - 1)]
  IN  WithRates(one, I)

\* C11: the I, R and R_7dayAv (and every other cell) of a location's
\* stored rows are what the script computes from that location's rows
\* alone with the fixed parameters, wherever the location stands in the
\* loop and whatever the other locations hold; the exported table holds
\* the same rows.
C11_LocationIndependent ==
  /\ \A f \in 1..Len(list_df) :
       list_df[f] = Alone(OwnRows(df_covid_raw, list_df[f][1].location))
  /\ pc = "done" =>
       \A n \in 1..Len(list_countries) :
         RowsOf(df_covid, list_countries[n])
           = Alone(OwnRows(df_covid_raw, list_countries[n]))

\* two locations exported, the first a full rolling window long: the
\* second has a rate on its first row and no 7-day rate, although the
\* seven rows that precede its second row would fill a window
C11_Witness ==
  /\ pc = "done"
  /\ Len(list_df) = 2
  /\ Len(list_df[1]) >= Window - 1
  /\ LET second == list_df[2]
     IN  /\ Len(second) >= 2
         /\ second[1].I = PUnit * second[1].new_cases.n
         /\ IsNum(second[1].R) /\ second[1].R.n > 0
         /\ IsNaN(second[1].R_7dayAv)
         /\ IsNaN(second[2].new_cases_7dayAv)

\* C12: for valid parameters the survival probability never increases
\* from one day to the next (hence from any T1 to any later T2): each
\* entry of the lookup table, as compute_I enters its loop, is at least
\* the next one, and the last is at least the probability of the day
\* after the table ends.
C12_MonotoneSurvival ==
  (pc = "compute_I" /\ t = 0 /\ ValidParams(params)) =>
    /\ \A T \in 1..(Horizon - 1) :
         prob_values[params][T] >= prob_values[params][T + 1]
    /\ prob_values[params][Horizon] >= prob_still_infected(Horizon, params)

\* compute_I has run on the table of a true mixture: it starts at 1,
\* drops strictly between two days while still positive, and ends at 0
C12_Witness ==
  /\ pc = "returned"
  /\ ValidParams(params)
  /\ params.delta > 0 /\ params.delta < DeltaUnit
  /\ prob_values[params][1] = PUnit
  /\ \E T \in 1..(Horizon - 1) :
       /\ prob_values[params][T] > prob_values[params][T + 1]
       /\ prob_values[params][T + 1] > 0
  /\ prob_values[params][Horizon] = 0

\* ----------------------------------- app_functions.py: make_r_d_scatter
\* bounds of the enumerated calls
MaxDays == 2
MaxDelay == 2

\* the variables of the script
script ==
  <<params, df_covid_raw, list_countries, country, df_temp, ar_cases, ar_I,
    t, list_df>>

\* the script is not running
NoScript ==
  /\ params = RefParams
  /\ df_covid_raw = <<>>
  /\ list_countries = <<>>
  /\ country = 0
  /\ df_temp = <<>>
  /\ ar_cases = <<>>
  /\ ar_I = <<>>
  /\ t = 0
  /\ list_df = <<>>

\* population of a location
Population(loc) == LocRank(loc) * 1000000

\* the rows of one location of the covid table: daily deaths
DeathRows(loc, vals) ==
  [i \in 1..Len(vals) |->
     [location |-> loc, date |-> i, new_deaths |-> vals[i],
      population |-> Population(loc)]]

\* the lists of distinct locations a caller can pass, in any order
Selections ==
  {sel \in UNION {[1..k -> {Locations[i] : i \in 1..Len(Locations)}] :
                    k \in 0..Len(Locations)} :
     \A i, j \in 1..Len(sel) : i # j => sel[i] # sel[j]}

\* Series.isin(countries)
IsIn(x, list) == \E i \in 1..Len(list) : list[i] = x

\* the cells of column col in the last n rows of location loc at
\* positions <= i, latest first
RECURSIVE GroupWindowOf(_, _, _, _, _)
GroupWindowOf(df, col, loc, i, n) ==
  IF n = 0 \/ i = 0 THEN <<>>
  ELSE IF df[i].location = loc
       THEN <<df[i][col]>> \o GroupWindowOf(df, col, loc, i - 1, n - 1)
       ELSE GroupWindowOf(df, col, loc, i - 1, n)

\* sum of a full window of n values without a missing one, else NaN
WindowSum(w, n) ==
  IF Len(w) < n \/ \E j \in 1..Len(w) : IsNaN(w[j]) THEN NaN
  ELSE Num(SumRange([j \in 1..Len(w) |-> w[j].n], 1, Len(w)))

\* df_plot.groupby('location')['new_deaths'].rolling(n_days).sum()
\*   .reset_index(0,drop=True), assigned as the column new_deaths_acc
RollingDeaths(df, n) ==
  [i \in 1..Len(df) |->
     [new_deaths_acc |->
        WindowSum(GroupWindowOf(df, "new_deaths", df[i].location, i, n), n)]
       @@ df[i]]

\* df_plot['new_deaths_acc_delay'] = df_plot['new_deaths_acc'].shift(delay)
Delayed(df, d) ==
  LET shifted == Shift(Column(df, "new_deaths_acc"), d)
  IN  [i \in 1..Len(df) |-> [new_deaths_acc_delay |-> shifted[i]] @@ df[i]]

\* Series.max() of the delayed column over one location (NaN are skipped;
\* NaN when nothing is left)
GroupMax(df, loc) ==
  LET nums == {df[i].new_deaths_acc_delay.n :
                 i \in {j \in 1..Len(df) :
                          df[j].location = loc /\ IsNum(df[j].new_deaths_acc_delay)}}
  IN  IF nums = {} THEN NaN
      ELSE Num(CHOOSE m \in nums : \A o \in nums : o <= m)

\* x / m for two cells, m a whole number or NaN
CellDiv(x, m) == IF IsNaN(m) THEN NaN ELSE FDiv(x, m.n)

\* df_plot.groupby('location').apply(normalise_deaths)
normalise_deaths(df, sc) ==
  [i \in 1..Len(df) |->
     [df[i] EXCEPT !.new_deaths_acc_delay =
        CASE sc = "Per million habitants" ->
               FDiv(FMul(@, 1000000), df[i].population)
          [] sc = "Max value" -> CellDiv(@, GroupMax(df, df[i].location))
          [] OTHER -> @]]

\* position of a location in the category list
CategoryRank(loc, list) == CHOOSE i \in 1..Len(list) : list[i] = loc

\* set_categories(countries); sort_values(['location','date'])
SortByCategory(df, list) ==
  LET less(a, b) ==
        \/ CategoryRank(a.location, list) < CategoryRank(b.location, list)
        \/ a.location = b.location /\ a.date < b.date
      rank == [j \in 1..Len(df) |->
                 1 + Cardinality({q \in 1..Len(df) : less(df[q], df[j])})]
  IN  [i \in 1..Len(df) |-> df[CHOOSE j \in 1..Len(df) : rank[j] = i]]

\* df_plot[df_plot['date'] > start_date]
After(df, start) == LET late(r) == r.date > start IN SelectSeq(df, late)

\* the points of the scatter plot: x, the date shown on hover, and what
\* colours the point (the location, or the position of the date when a
\* single country is plotted)
Points(df, single) ==
  [i \in 1..Len(df) |->
     [x |-> df[i].new_deaths_acc_delay, customdata |-> df[i].date,
      color |-> IF single THEN Num(i - 1) ELSE df[i].location]]

\* a call make_r_d_scatter(df_covid, countries, n_days, scale, start_date,
\* delay) on a table of two locations sorted by location and date
InitScatter ==
  /\ pc = "scatter"
  /\ \E m \in 1..2, n \in 1..2 :
       \E a \in [1..m -> TinyVals], b \in [1..n -> TinyVals] :
         df_covid = DeathRows(Locations[1], a) \o DeathRows(Locations[2], b)
  /\ countries \in Selections
  /\ n_days \in 1..MaxDays
  /\ delay \in 0..MaxDelay
  /\ scale \in {"Raw", "Per million habitants", "Max value"}
  /\ start_date \in {0, 1}
  /\ res = ""
  /\ df_plot = <<>>
  /\ count = 0
  /\ fig = <<>>
  /\ NoScript

\* if len(countries)==0: return px.scatter()
ScatterEmpty ==
  /\ pc = "scatter"
  /\ Len(countries) = 0
  /\ fig' = <<>>
  /\ pc' = "scatter_done"
  /\ UNCHANGED <<countries, res, scale, n_days, start_date, delay, df_plot, count>>
  /\ UNCHANGED <<df_covid, script>>

\* df_plot = df_covid[df_covid['location'].isin(countries)].copy()
ScatterSelect ==
  /\ pc = "scatter"
  /\ Len(countries) # 0
  /\ LET chosen(r) == IsIn(r.location, countries)
     IN  df_plot' = SelectSeq(df_covid, chosen)
  /\ pc' = "scatter_rolling"
  /\ UNCHANGED <<countries, res, scale, n_days, start_date, delay, count, fig>>
  /\ UNCHANGED <<df_covid, script>>

\* the accumulated deaths of the previous n_days
ScatterRolling ==
  /\ pc = "scatter_rolling"
  /\ df_plot' = RollingDeaths(df_plot, n_days)
  /\ pc' = "scatter_shift"
  /\ UNCHANGED <<countries, res, scale, n_days, start_date, delay, count, fig>>
  /\ UNCHANGED <<df_covid, script>>

\* the delay
ScatterShift ==
  /\ pc = "scatter_shift"
  /\ df_plot' = Delayed(df_plot, delay)
  /\ pc' = "scatter_normalise"
  /\ UNCHANGED <<countries, res, scale, n_days, start_date, delay, count, fig>>
  /\ UNCHANGED <<df_covid, script>>

\* scaling, ordering by the list of countries, and the start date
ScatterNormalise ==
  /\ pc = "scatter_normalise"
  /\ df_plot' =
       After(SortByCategory(normalise_deaths(df_plot, scale), countries),
             start_date)
  /\ pc' = "scatter_figure"
  /\ UNCHANGED <<countries, res, scale, n_days, start_date, delay, count, fig>>
  /\ UNCHANGED <<df_covid, script>>

\* px.scatter coloured by location, or one go.Scatter coloured by date
ScatterFigure ==
  /\ pc = "scatter_figure"
  /\ Len(countries) # 1 \/ Len(df_plot) > 0
  /\ fig' = Points(df_plot, Len(countries) = 1)
  /\ pc' = "scatter_done"
  /\ UNCHANGED <<countries, res, scale, n_days, start_date, delay, df_plot, count>>
  /\ UNCHANGED <<df_covid, script>>

\* one country and no row left: date_to_val.index[0] raises IndexError
ScatterRaise ==
  /\ pc = "scatter_figure"
  /\ Len(countries) = 1
  /\ Len(df_plot) = 0
  /\ pc' = "scatter_raised"
  /\ UNCHANGED plots
  /\ UNCHANGED <<df_covid, script>>

NextScatter ==
  \/ ScatterEmpty
  \/ ScatterSelect
  \/ ScatterRolling
  \/ ScatterShift
  \/ ScatterNormalise
  \/ ScatterFigure
  \/ ScatterRaise

SpecScatter == InitScatter /\ [][NextScatter]_vars

\* the n-day death sums of one location computed from its rows alone
OwnDeathSums(df, loc, n) ==
  LET own == RowsOf(df, loc)
  IN  [k \in 1..Len(own) |->
         WindowSum([j \in 1..Min(n, k) |-> own[k + 1 - j].new_deaths], n)]

\* the number of rows of location loc at positions <= i
RowOfLocation(df, loc, i) ==
  Cardinality({j \in 1..i : df[j].location = loc})

\* C13: once the delay has been applied, the delayed cumulative-death
\* value on the k-th row of a location L is L's n_days death sum of its
\* row k - delay, and NaN when L has no such row; no value comes from the
\* rows of another location.
C13_DelayWithinLocation ==
  pc = "scatter_normalise" =>
    \A i \in 1..Len(df_plot) :
      LET loc == df_plot[i].location
          k == RowOfLocation(df_plot, loc, i)
          sums == OwnDeathSums(df_covid, loc, n_days)
      IN  df_plot[i].new_deaths_acc_delay
            = IF k - delay >= 1 THEN sums[k - delay] ELSE NaN

\* ------------------------------------ app.py: make_grid_plot, update_figs
\* longest enumerated selection of the countries dropdown
MaxSelected == 11

\* the colour cycle of make_grid_plot
cols ==
  <<"#1f77b4", "#ff7f0e", "#2ca02c", "#d62728", "#9467bd", "#8c564b",
    "#e377c2", "#7f7f7f", "#bcbd22", "#17becf">>

\* the locations of the table the app reads
AppLocations ==
  <<"Argentina", "Brazil", "Canada", "France", "Germany", "India", "Italy",
    "Japan", "Mexico", "Spain", "United Kingdom", "United States">>

def_countries == <<"United States">>
def_res == "Daily"
def_scale == "Raw"

\* pd.read_csv('data/df_covid2.csv'): one row per location
GridFrame ==
  [i \in 1..Len(AppLocations) |->
     [location |-> AppLocations[i], date |-> 1, population |-> i * 1000000,
      new_cases |-> Num(i), new_deaths |-> Num(1),
      new_cases_7dayAv |-> NaN, new_deaths_7dayAv |-> NaN,
      I |-> Num(i), R |-> NaN, R_7dayAv |-> NaN]]

\* the value of the multi-select dropdown: k distinct options, taken in
\* the order of the options from the s-th on, or in the opposite order
Selection(s, k, backwards) ==
  LET n == Len(AppLocations)
      picked == [i \in 1..k |-> AppLocations[((s + i - 2) % n) + 1]]
  IN  IF backwards THEN Reverse(picked) ELSE picked

\* the column names chosen by res: cases, deaths, I, R
GridColumns(r) ==
  IF r = "Daily" THEN <<"new_cases", "new_deaths", "I", "R">>
  ELSE <<"new_cases_7dayAv", "new_deaths_7dayAv", "I", "R_7dayAv">>

\* y1..y4 of one country: the columns as they are, or the first three per
\* million habitants
GridValues(df, r, sc) ==
  [j \in 1..4 |->
     [i \in 1..Len(df) |->
        IF sc = "Per million habitants" /\ j < 4
        THEN FDiv(FMul(df[i][GridColumns(r)[j]], 1000000), df[i].population)
        ELSE df[i][GridColumns(r)[j]]]]

\* the four go.Scatter traces of one country, rows 1 to 4 of the grid
GridTraces(df, name, r, sc, color) ==
  [j \in 1..4 |->
     [name |-> name, legendgroup |-> name, showlegend |-> (j = 1),
      color |-> color, row |-> j, x |-> Column(df, "date"),
      y |-> GridValues(df, r, sc)[j]]]

\* the module is loaded: fig_grid = make_grid_plot(def_countries, def_res,
\* def_scale) enters its loop
InitGrid ==
  /\ pc = "grid_loop"
  /\ df_covid = GridFrame
  /\ list_countries = Unique(GridFrame)
  /\ countries = def_countries
  /\ res = def_res
  /\ scale = def_scale
  /\ count = 0
  /\ fig = <<>>
  /\ n_days = 0
  /\ start_date = 0
  /\ delay = 0
  /\ df_plot = <<>>
  /\ params = RefParams
  /\ df_covid_raw = <<>>
  /\ country = 0
  /\ df_temp = <<>>
  /\ ar_cases = <<>>
  /\ ar_I = <<>>
  /\ t = 0
  /\ list_df = <<>>

\* one iteration of `for country in countries`: four traces in the colour
\* cols[count]
GridAddTraces ==
  /\ pc = "grid_loop"
  /\ count < Len(countries)
  /\ count < Len(cols)
  /\ LET name == countries[count + 1]
     IN  fig' = fig \o GridTraces(RowsOf(df_covid, name), name, res, scale,
                                  cols[count + 1])
  /\ count' = count + 1
  /\ UNCHANGED <<pc, countries, res, scale, n_days, start_date, delay, df_plot>>
  /\ UNCHANGED <<df_covid, script>>

\* cols[count] raises IndexError: no figure is returned
GridRaise ==
  /\ pc = "grid_loop"
  /\ count < Len(countries)
  /\ count >= Len(cols)
  /\ pc' = "grid_raised"
  /\ UNCHANGED plots
  /\ UNCHANGED <<df_covid, script>>

\* the layout is set and the figure returned
GridReturn ==
  /\ pc = "grid_loop"
  /\ count = Len(countries)
  /\ pc' = "grid_served"
  /\ UNCHANGED plots
  /\ UNCHANGED <<df_covid, script>>

\* the callback update_figs(countries, res, scale): a value of the three
\* dropdowns has changed and make_grid_plot starts on a new figure
update_figs ==
  /\ pc \in {"grid_served", "grid_raised"}
  /\ \E s \in 1..Len(AppLocations), k \in 0..Min(MaxSelected, Len(AppLocations)),
        backwards \in BOOLEAN :
       countries' = Selection(s, k, backwards)
  /\ res' \in {"Daily", "7 day average"}
  /\ scale' \in {"Raw", "Per million habitants"}
  /\ count' = 0
  /\ fig' = <<>>
  /\ pc' = "grid_loop"
  /\ UNCHANGED <<n_days, start_date, delay, df_plot>>
  /\ UNCHANGED <<df_covid, script>>

NextGrid ==
  \/ GridAddTraces
  \/ GridRaise
  \/ GridReturn
  \/ update_figs

SpecGrid == InitGrid /\ [][NextGrid]_vars

\* C14: for every list of distinct locations the dropdown delivers (the
\* empty one, and one of more than 10), the call does not raise, and the
\* figure it returns holds exactly four traces per listed country, in
\* list order, one for each row of the grid.
C14_FourTracesPerCountry ==
  /\ pc # "grid_raised"
  /\ pc = "grid_served" =>
       /\ Len(fig) = 4 * Len(countries)
       /\ \A c \in 1..Len(countries), j \in 1..4 :
            /\ fig[4 * (c - 1) + j].name = countries[c]
            /\ fig[4 * (c - 1) + j].row = j

=============================================================================
